---- MODULE Spec2Model ----
(***************************************************************************)
(* Model of the technician-ranking engine of ai-technician-service:        *)
(* models/technician_recommender.py (TechnicianRecommender) with its data  *)
(* provider (models/database.py, models/dotnet_client.py) and the default  *)
(* weights of config.py.                                                   *)
(*                                                                         *)
(* Numbers.  The engine computes with floats.  The model computes the same *)
(* expressions exactly, on integers:                                       *)
(*   - a component score s is the integer s * SCALE (SCALE = 6000);        *)
(*   - a weight w is the integer w * 100;                                  *)
(*   - a total score t is the integer t * SCALE * 100;                     *)
(*   - a rating r in [0,5] is the integer r * 10;                          *)
(*   - a success rate in [0,1] is the integer rate * 100;                  *)
(*   - a value rounded to 2 decimals is the integer value * 100.           *)
(* Strings are sequences of one-character strings.                         *)
(***************************************************************************)
EXTENDS Integers, Sequences, FiniteSets, TLC

VARIABLES
    pool,                \* the provider's list of available technicians (dicts)
    db,                  \* the provider's answers: technician id -> stats, workload, reviews
    booking_data,        \* the booking handed to recommend
    weights,             \* self.weights
    pc,                  \* position of recommend: "start", "scoring", "done"
    idx,                 \* position of the for loop over technicians (1-based)
    scored_technicians,  \* the list recommend builds
    result,              \* the value recommend returned
    queries,             \* the provider queries issued so far, in order
    fn,                  \* arguments of a scoring function applied on its own
    out,                 \* what that function returned
    classifier,          \* the trained model of train_model.py, if there is one
    earlier              \* what the earlier calls of recommend got and returned

vars ==
    <<pool, db, booking_data, weights, pc, idx, scored_technicians, result, queries,
      fn, out, classifier, earlier>>

-----------------------------------------------------------------------------
(* Units and Python values *)

SCALE == 60 * 100

\* a score given in hundredths (0.95 is P(95))
P(hundredths) == hundredths * (SCALE \div 100)

ONE == P(100)

Min(a, b) == IF a <= b THEN a ELSE b
Max(a, b) == IF a >= b THEN a ELSE b

\* Python's None where the other values are numbers, resp. strings
NoneNumber == 0 - 1
NoneString == <<"None">>
\* stats is None
NoneStats == [None |-> TRUE]
\* location is None
NoneLocation == [None |-> TRUE]

\* dict.get(key, default)
Get(d, key, default) == IF key \in DOMAIN d THEN d[key] ELSE default

-----------------------------------------------------------------------------
(* str.lower, str.strip, str.split(','), the `in` of two strings *)

LowerChar(c) ==
    CASE c = "A" -> "a"
      [] c = "B" -> "b"
      [] c = "C" -> "c"
      [] OTHER -> c

Lower(s) == [i \in 1..Len(s) |-> LowerChar(s[i])]

RECURSIVE LStrip(_)
LStrip(s) == IF s # <<>> /\ Head(s) = " " THEN LStrip(Tail(s)) ELSE s

RECURSIVE RStrip(_)
RStrip(s) ==
    IF s # <<>> /\ s[Len(s)] = " " THEN RStrip(SubSeq(s, 1, Len(s) - 1)) ELSE s

Strip(s) == RStrip(LStrip(s))

\* s.split(','): the pieces between the commas, the empty ones included
RECURSIVE SplitFrom(_, _, _)
SplitFrom(s, i, piece) ==
    IF i > Len(s) THEN <<piece>>
    ELSE IF s[i] = "," THEN <<piece>> \o SplitFrom(s, i + 1, <<>>)
    ELSE SplitFrom(s, i + 1, Append(piece, s[i]))

Split(s) == SplitFrom(s, 1, <<>>)

\* sub in s
Contains(sub, s) ==
    \E i \in 0..(Len(s) - Len(sub)) : SubSeq(s, i + 1, i + Len(sub)) = sub

\* [f(x) for x in xs if keep(x)] with f the identity
RECURSIVE NonEmpty(_)
NonEmpty(xs) ==
    IF xs = <<>> THEN <<>>
    ELSE IF Head(xs) # <<>> THEN <<Head(xs)>> \o NonEmpty(Tail(xs))
    ELSE NonEmpty(Tail(xs))

-----------------------------------------------------------------------------
(* What a computation that may raise gives back: the value it returned or  *)
(* the fact that it raised, and the provider queries it issued             *)

Return(v, qs) == [raised |-> FALSE, value |-> v, queries |-> qs]
Raise(qs) == [raised |-> TRUE, value |-> 0, queries |-> qs]

-----------------------------------------------------------------------------
(* The scoring functions *)

\* requested_categories of _calculate_specialization_score
requested_categories(services) ==
    NonEmpty([i \in 1..Len(services) |->
                 Strip(Lower(Get(services[i], "category", <<>>)))])

\* tech_specs_list of _calculate_specialization_score (tech_specs is a string)
tech_specs_list(tech_specs) ==
    LET pieces == Split(Lower(tech_specs))
    IN  NonEmpty([i \in 1..Len(pieces) |-> Strip(pieces[i])])

\* matches: the requested categories that match some specialization
matches(categories, specs) ==
    Cardinality({i \in 1..Len(categories) :
        \E j \in 1..Len(specs) :
            Contains(categories[i], specs[j]) \/ Contains(specs[j], categories[i])})

\* match_score as the docstring has it: the percentage itself is the score
match_score_percentage(matched, requested) == (matched * ONE) \div requested

\* the score of a match percentage matched / requested
match_score(matched, requested) ==
    IF matched = requested THEN P(95)
    ELSE IF 2 * matched >= requested THEN P(70) + (matched * P(20)) \div requested
    ELSE P(50) + (matched * P(20)) \div requested

_calculate_specialization_score(technician, services) ==
    IF services = <<>> THEN Return(P(50), <<>>)
    ELSE LET requested == requested_categories(services)
         IN  IF requested = <<>> THEN Return(P(50), <<>>)
             ELSE LET tech_specs == Get(technician, "Specialization", <<>>)
                  IN  IF tech_specs = NoneString THEN Raise(<<>>)   \* None has no lower()
                      ELSE LET specs == tech_specs_list(tech_specs)
                           IN  IF specs = <<>> THEN Return(P(30), <<>>)
                               ELSE Return(match_score(matches(requested, specs),
                                                       Len(requested)), <<>>)

\* the provider's query `op` for technician `id`: its answer, or it raises
Query(d, op, id) == <<op, id>>

Raises(d, op, id) == op \in d[id].raises

_calculate_performance_score(d, technician_id) ==
    LET q1 == <<Query(d, "get_technician_stats", technician_id)>>
        q2 == Append(q1, Query(d, "get_technician_current_workload", technician_id))
        stats == d[technician_id].stats
    IN  IF Raises(d, "get_technician_stats", technician_id) THEN Raise(q1)
        ELSE IF stats = NoneStats \/ DOMAIN stats = {}
                \/ Get(stats, "TotalBookings", 0) = 0
        THEN Return(P(65), q1)
        ELSE LET got == Get(stats, "SuccessRate", 0)
                 success_rate == IF got = NoneNumber THEN 80 ELSE got
                 current_workload == d[technician_id].workload
                 \* max(0.0, 1.0 - current_workload / 10.0)
                 workload_score == Max(0, ONE - current_workload * (ONE \div 10))
                 \* success_rate * 0.6 + workload_score * 0.4
                 performance_score ==
                     (success_rate * (SCALE \div 100) * 6) \div 10
                     + (workload_score * 4) \div 10
             IN  IF Raises(d, "get_technician_current_workload", technician_id)
                 THEN Raise(q2)
                 ELSE Return(Min(performance_score, ONE), q2)

\* _calculate_rating_score with the higher of the two ratings as final_rating
rating_score_higher_of(d, technician) ==
    LET tech_rating == Get(technician, "Rating", 0)
    IN  IF "TechnicianId" \notin DOMAIN technician THEN Raise(<<>>)
        ELSE LET id == technician["TechnicianId"]
                 q == <<Query(d, "get_technician_reviews_avg", id)>>
                 final_rating == Max(d[id].reviews, tech_rating)
             IN  IF Raises(d, "get_technician_reviews_avg", id) THEN Raise(q)
                 ELSE Return(Min((final_rating * SCALE) \div 50, ONE), q)

_calculate_rating_score(d, technician) ==
    LET tech_rating == Get(technician, "Rating", 0)
    IN  IF "TechnicianId" \notin DOMAIN technician THEN Raise(<<>>)   \* KeyError
        ELSE LET id == technician["TechnicianId"]
                 q == <<Query(d, "get_technician_reviews_avg", id)>>
                 reviews_avg == d[id].reviews
                 final_rating == IF reviews_avg > 0 THEN reviews_avg ELSE tech_rating
                 \* final_rating / 5.0, ratings in tenths
                 score == (final_rating * SCALE) \div 50
             IN  IF Raises(d, "get_technician_reviews_avg", id) THEN Raise(q)
                 ELSE Return(Min(score, ONE), q)

\* availability_of with + for - in the band of 6 to 10
availability_rising(workload) ==
    IF workload <= 2 THEN P(100)
    ELSE IF workload <= 5 THEN P(90) - (workload - 2) * P(6)
    ELSE IF workload <= 10 THEN P(60) + (workload - 5) * P(4)
    ELSE Max(P(20), P(40) - (workload - 10) * P(2))

\* availability_of with < for <= at the end of the band of 3 to 5
availability_open_band(workload) ==
    IF workload <= 2 THEN P(100)
    ELSE IF workload < 5 THEN P(90) - (workload - 2) * P(6)
    ELSE IF workload <= 10 THEN P(60) - (workload - 5) * P(4)
    ELSE Max(P(20), P(40) - (workload - 10) * P(2))

\* the staircase of _calculate_availability_score
availability_of(workload) ==
    IF workload <= 2 THEN P(100)
    ELSE IF workload <= 5 THEN P(90) - (workload - 2) * P(6)
    ELSE IF workload <= 10 THEN P(60) - (workload - 5) * P(4)
    ELSE Max(P(20), P(40) - (workload - 10) * P(2))

\* _calculate_availability_score as a location stub: zero for a booking that
\* carries a location
availability_by_location(d, technician_id, location) ==
    LET q == <<Query(d, "get_technician_current_workload", technician_id)>>
    IN  IF Raises(d, "get_technician_current_workload", technician_id) THEN Raise(q)
        ELSE IF location # NoneLocation THEN Return(P(0), q)
        ELSE Return(availability_of(d[technician_id].workload), q)

_calculate_availability_score(d, technician_id, location) ==
    LET q == <<Query(d, "get_technician_current_workload", technician_id)>>
    IN  IF Raises(d, "get_technician_current_workload", technician_id) THEN Raise(q)
        ELSE Return(availability_of(d[technician_id].workload), q)

\* the dict display of _calculate_scores: its values are computed in order, and
\* the first one that raises ends the computation
_calculate_scores(d, technician, booking) ==
    LET s == _calculate_specialization_score(technician, Get(booking, "services", <<>>))
    IN  IF s.raised THEN Raise(s.queries)
        ELSE IF "TechnicianId" \notin DOMAIN technician THEN Raise(s.queries)
        ELSE
        LET id == technician["TechnicianId"]
            p == _calculate_performance_score(d, id)
        IN  IF p.raised THEN Raise(s.queries \o p.queries)
            ELSE
            LET r == _calculate_rating_score(d, technician)
            IN  IF r.raised THEN Raise(s.queries \o p.queries \o r.queries)
                ELSE
                LET a == _calculate_availability_score(d, id, Get(booking, "location", NoneLocation))
                    qs == s.queries \o p.queries \o r.queries \o a.queries
                IN  IF a.raised THEN Raise(qs)
                    ELSE Return([specialization |-> s.value,
                                 performance |-> p.value,
                                 rating |-> r.value,
                                 availability |-> a.value], qs)

\* the keys of self.weights, in the order of the dict
FACTORS == <<"specialization", "performance", "rating", "availability">>

\* _calculate_total_score without the min
total_score_unclamped(w, scores) ==
    scores["specialization"] * w["specialization"]
    + scores["performance"] * w["performance"]
    + scores["rating"] * w["rating"]
    + scores["availability"] * w["availability"]

\* min(sum(scores[key] * self.weights[key] for key in self.weights.keys()), 1.0)
_calculate_total_score(w, scores) ==
    Min(scores["specialization"] * w["specialization"]
        + scores["performance"] * w["performance"]
        + scores["rating"] * w["rating"]
        + scores["availability"] * w["availability"], ONE * 100)

\* round(x, 2) of x = n / unit, in hundredths; an exact tie goes to the even side
Round2(n, unit) ==
    LET q == (n * 100) \div unit
        r == (n * 100) % unit
    IN  IF 2 * r < unit THEN q
        ELSE IF 2 * r > unit THEN q + 1
        ELSE IF q % 2 = 0 THEN q ELSE q + 1

\* sorted(scores.items(), key=lambda x: x[1], reverse=True): the factor names,
\* highest score first, equal scores in the order of the dict
RECURSIVE insert_factor(_, _, _)
insert_factor(name, ranked, scores) ==
    IF ranked = <<>> THEN <<name>>
    ELSE IF scores[Head(ranked)] >= scores[name]
         THEN <<Head(ranked)>> \o insert_factor(name, Tail(ranked), scores)
         ELSE <<name>> \o ranked

RECURSIVE sorted_factors(_, _)
sorted_factors(names, scores) ==
    IF names = <<>> THEN <<>>
    ELSE insert_factor(names[Len(names)],
                       sorted_factors(SubSeq(names, 1, Len(names) - 1), scores), scores)

reasons ==
    [specialization |-> "excellent specialization match",
     performance |-> "strong performance history",
     rating |-> "high customer ratings",
     availability |-> "good availability"]

\* _generate_reason with >= for > at the threshold of the second factor
_generate_reason_at_least(scores) ==
    LET sorted_scores == sorted_factors(FACTORS, scores)
        top_factor == sorted_scores[1]
        second_factor == sorted_scores[2]
    IN  IF scores[second_factor] >= P(70)
        THEN <<"Best match based on ", reasons[top_factor], " and ", reasons[second_factor]>>
        ELSE <<"Best match based on ", reasons[top_factor]>>

\* the reason, as the pieces of the string
_generate_reason(scores) ==
    LET sorted_scores == sorted_factors(FACTORS, scores)
        top_factor == sorted_scores[1]
        second_factor == sorted_scores[2]
    IN  IF scores[second_factor] > P(70)
        THEN <<"Best match based on ", reasons[top_factor], " and ", reasons[second_factor]>>
        ELSE <<"Best match based on ", reasons[top_factor]>>

_get_workload_label(performance_score) ==
    IF performance_score >= P(80) THEN "light"
    ELSE IF performance_score >= P(60) THEN "moderate"
    ELSE "heavy"

-----------------------------------------------------------------------------
(* recommend *)

\* the body of the try of recommend: the scores, the total and the entry
\* appended to scored_technicians (tech['DisplayName'] of a dict without
\* that key raises KeyError)
score_entry(d, w, tech, booking) ==
    LET c == _calculate_scores(d, tech, booking)
    IN  IF c.raised THEN Raise(c.queries)
        ELSE IF ~({"TechnicianId", "DisplayName", "Email"} \subseteq DOMAIN tech)
        THEN Raise(c.queries)
        ELSE Return([technician_id |-> tech["TechnicianId"],
                     technician_name |-> tech["DisplayName"],
                     email |-> tech["Email"],
                     total_score |-> _calculate_total_score(w, c.value),
                     confidence |-> _calculate_total_score(w, c.value),
                     scores |-> c.value], c.queries)

\* list.sort(key=lambda x: x['total_score'], reverse=True): a stable sort, so
\* an entry goes behind the entries whose total is at least its own
\* insert_by_total with > for >=: entries of equal total end up reversed
RECURSIVE insert_by_total_unstable(_, _)
insert_by_total_unstable(entry, ranked) ==
    IF ranked = <<>> THEN <<entry>>
    ELSE IF Head(ranked).total_score > entry.total_score
         THEN <<Head(ranked)>> \o insert_by_total_unstable(entry, Tail(ranked))
         ELSE <<entry>> \o ranked

RECURSIVE insert_by_total(_, _)
insert_by_total(entry, ranked) ==
    IF ranked = <<>> THEN <<entry>>
    ELSE IF Head(ranked).total_score >= entry.total_score
         THEN <<Head(ranked)>> \o insert_by_total(entry, Tail(ranked))
         ELSE <<entry>> \o ranked

RECURSIVE sort_by_total(_)
sort_by_total(entries) ==
    IF entries = <<>> THEN <<>>
    ELSE insert_by_total(entries[Len(entries)],
                         sort_by_total(SubSeq(entries, 1, Len(entries) - 1)))

\* alternatives_of with the slice [0:2]
alternatives_from_best(ranked) == SubSeq(ranked, 1, Min(2, Len(ranked)))

\* scored_technicians[1:3]
alternatives_of(ranked) == SubSeq(ranked, 2, Min(3, Len(ranked)))

\* the response of a non-empty ranked list
response(ranked) ==
    LET best == ranked[1]
        alts == alternatives_of(ranked)
    IN  [recommended_technician_id |-> best.technician_id,
         confidence |-> Round2(best.confidence, SCALE * 100),
         reason |-> _generate_reason(best.scores),
         alternatives |->
             [i \in 1..Len(alts) |->
                 [technician_id |-> alts[i].technician_id,
                  confidence |-> Round2(alts[i].confidence, SCALE * 100),
                  reason |-> _generate_reason(alts[i].scores)]],
         factors |->
             [specialization_match |-> Round2(best.scores["specialization"], SCALE),
              location_proximity |-> Round2(best.scores["availability"], SCALE),
              rating |-> Round2(best.scores["rating"], SCALE),
              workload |-> _get_workload_label(best.scores["performance"])]]

no_technicians ==
    [error |-> "No available technicians found",
     recommended_technician_id |-> NoneNumber]

scoring_failed ==
    [error |-> "Failed to score technicians",
     recommended_technician_id |-> NoneNumber]

\* get_available_technicians without the return on an empty list
get_available_technicians_unchecked ==
    /\ pc = "start"
    /\ queries' = Append(queries, <<"get_available_technicians">>)
    /\ pc' = "scoring"
    /\ UNCHANGED <<pool, db, booking_data, weights, idx, scored_technicians, result, fn, out, classifier, earlier>>

\* technicians = self.db.get_available_technicians(), and the return on an
\* empty list
get_available_technicians ==
    /\ pc = "start"
    /\ queries' = Append(queries, <<"get_available_technicians">>)
    /\ IF pool = <<>>
       THEN /\ result' = no_technicians
            /\ pc' = "done"
       ELSE /\ result' = result
            /\ pc' = "scoring"
    /\ UNCHANGED <<pool, db, booking_data, weights, idx, scored_technicians, fn, out, classifier, earlier>>

\* one turn of the for loop in which the try runs to its end
score_technician ==
    /\ pc = "scoring"
    /\ idx <= Len(pool)
    /\ \E e \in {score_entry(db, weights, pool[idx], booking_data)} :
           /\ ~e.raised
           /\ scored_technicians' = Append(scored_technicians, e.value)
           /\ queries' = queries \o e.queries
    /\ idx' = idx + 1
    /\ UNCHANGED <<pool, db, booking_data, weights, pc, result, fn, out, classifier, earlier>>

\* skip_technician with break for continue: the loop ends at the first failure
skip_technician_break ==
    /\ pc = "scoring"
    /\ idx <= Len(pool)
    /\ \E e \in {score_entry(db, weights, pool[idx], booking_data)} :
           /\ e.raised
           /\ queries' = queries \o e.queries
    /\ idx' = Len(pool) + 1
    /\ UNCHANGED <<pool, db, booking_data, weights, pc, scored_technicians, result, fn, out, classifier, earlier>>

\* skip_technician without the except: the exception leaves recommend
skip_technician_raise ==
    /\ pc = "scoring"
    /\ idx <= Len(pool)
    /\ \E e \in {score_entry(db, weights, pool[idx], booking_data)} :
           /\ e.raised
           /\ queries' = queries \o e.queries
    /\ result' = [exception |-> "raised"]
    /\ pc' = "done"
    /\ UNCHANGED <<pool, db, booking_data, weights, idx, scored_technicians, fn, out, classifier, earlier>>

\* skip_technician with one retry: the failed scoring is run a second time
skip_technician_retry ==
    /\ pc = "scoring"
    /\ idx <= Len(pool)
    /\ \E e \in {score_entry(db, weights, pool[idx], booking_data)} :
           /\ e.raised
           /\ queries' = queries \o e.queries \o e.queries
    /\ idx' = idx + 1
    /\ UNCHANGED <<pool, db, booking_data, weights, pc, scored_technicians, result, fn, out, classifier, earlier>>

\* one turn of the for loop that ends in the except: logged, and continue
skip_technician ==
    /\ pc = "scoring"
    /\ idx <= Len(pool)
    /\ \E e \in {score_entry(db, weights, pool[idx], booking_data)} :
           /\ e.raised
           /\ queries' = queries \o e.queries
    /\ idx' = idx + 1
    /\ UNCHANGED <<pool, db, booking_data, weights, pc, scored_technicians, result, fn, out, classifier, earlier>>

\* after the loop: the error of an empty scored list, or sort and respond
build_response ==
    /\ pc = "scoring"
    /\ idx > Len(pool)
    /\ IF scored_technicians = <<>>
       THEN /\ result' = scoring_failed
            /\ scored_technicians' = scored_technicians
       ELSE \E ranked \in {sort_by_total(scored_technicians)} :
               /\ scored_technicians' = ranked
               /\ result' = response(ranked)
    /\ pc' = "done"
    /\ UNCHANGED <<pool, db, booking_data, weights, idx, queries, fn, out, classifier, earlier>>

-----------------------------------------------------------------------------
(* The provider's data, the bookings and the weights recommend runs on *)

\* the longest list of technicians the provider returns
MaxPool == 4

\* config.py
WEIGHT_SPECIALIZATION == 40
WEIGHT_PERFORMANCE == 30
WEIGHT_RATING == 20
WEIGHT_AVAILABILITY == 10

\* DefaultWeights with the rating given the weight of the specialization, the
\* availability that of the rating and the specialization that of the
\* availability
weights_rating_first ==
    [specialization |-> WEIGHT_AVAILABILITY,
     performance |-> WEIGHT_PERFORMANCE,
     rating |-> WEIGHT_SPECIALIZATION,
     availability |-> WEIGHT_RATING]

\* self.weights of __init__, under the default settings
DefaultWeights ==
    [specialization |-> WEIGHT_SPECIALIZATION,
     performance |-> WEIGHT_PERFORMANCE,
     rating |-> WEIGHT_RATING,
     availability |-> WEIGHT_AVAILABILITY]

\* settings of the environment whose weights sum to more than 1
HeavyWeights ==
    [specialization |-> 100, performance |-> 50, rating |-> 20, availability |-> 10]

\* a row of get_available_technicians without its TechnicianId
Row(specialization, rating) ==
    [DisplayName |-> "name", Email |-> "email",
     Specialization |-> specialization, Rating |-> rating, IsAvailable |-> TRUE]

\* a row of get_technician_stats
Stats(total, rate) ==
    [TotalBookings |-> total, CompletedBookings |-> (total * Max(rate, 0)) \div 100,
     SuccessRate |-> rate]

\* what the provider holds on one technician, and which of its queries raise
Answers(stats, workload, reviews, raises) ==
    [stats |-> stats, workload |-> workload, reviews |-> reviews, raises |-> raises]

Profiles ==
    { \* every tag requested (written with capitals and blanks), every booking
      \* completed, idle, rated 5.0
      [row |-> Row(<<" ", "A", " ", ",", "b">>, 50),
       prov |-> Answers(Stats(4, 100), 0, 0, {})],
      \* one tag, no stats row
      [row |-> Row(<<"a">>, 42), prov |-> Answers(NoneStats, 1, 0, {})],
      \* another trade, overloaded, reviewed
      [row |-> Row(<<"c">>, 48), prov |-> Answers(Stats(10, 80), 12, 30, {})],
      \* no tags, no bookings yet, reviewed
      [row |-> Row(<<>>, 40), prov |-> Answers(Stats(0, NoneNumber), 4, 45, {})],
      \* Specialization is NULL in the table
      [row |-> Row(NoneString, 45), prov |-> Answers(Stats(4, 50), 2, 0, {})],
      \* a row without DisplayName
      [row |-> [Email |-> "email", Specialization |-> <<"a", ",", "b">>, Rating |-> 50],
       prov |-> Answers(Stats(4, 100), 0, 0, {})],
      \* the provider's workload query raises
      [row |-> Row(<<"a", ",", "b">>, 50),
       prov |-> Answers(Stats(4, 100), 0, 0, {"get_technician_current_workload"})] }

\* the row of technician `id`
technician_of(id, row) ==
    [k \in DOMAIN row \cup {"TechnicianId"} |->
        IF k = "TechnicianId" THEN id ELSE row[k]]

\* model_dump(by_alias=True) of a BookingServiceInfoDto
Service(category) == [serviceId |-> 1, serviceName |-> "service", category |-> category]

\* the services of the booking: two categories, written with a capital and
\* blanks, and a blank one
ServiceLists ==
    { <<Service(<<"a", " ">>), Service(<<" ">>), Service(<<"B">>)>> }

\* booking_data of assign_technician
Booking(services) ==
    [booking_id |-> 1, services |-> services, scheduled_date |-> "date",
     location |-> NoneLocation, priority |-> "normal"]

NoCall == [kind |-> "none"]

\* no file models/ml/technician_model.pkl
NoClassifier == [kind |-> "none"]

Init ==
    /\ \E n \in 0..MaxPool :
        \E choice \in [1..n -> Profiles] :
            /\ pool = [i \in 1..n |-> technician_of(i, choice[i].row)]
            /\ db = [i \in 1..n |-> choice[i].prov]
    /\ \E services \in ServiceLists : booking_data = Booking(services)
    /\ weights = DefaultWeights
    /\ pc = "start"
    /\ idx = 1
    /\ scored_technicians = <<>>
    /\ result = NoCall
    /\ queries = <<>>
    /\ fn = NoCall
    /\ out = NoCall
    /\ classifier = NoClassifier
    /\ earlier = <<>>

Next ==
    \/ get_available_technicians
    \/ score_technician
    \/ skip_technician
    \/ build_response

Spec == Init /\ [][Next]_vars

-----------------------------------------------------------------------------
(* The scoring functions applied on their own, to arguments drawn from      *)
(* wider sets than the rows of Profiles                                     *)

\* the largest workload the provider reports
MaxWorkload == 22
\* the longest Specialization string and the longest list of services
MaxTagLen == 3
MaxServices == 3
\* the longest list of scored technicians a response is built from alone
MaxScored == 3

\* the strings of at most n characters of cs
RECURSIVE Strings(_, _)
Strings(cs, n) ==
    IF n = 0 THEN {<<>>}
    ELSE Strings(cs, n - 1)
         \cup {Append(t, c) : t \in {u \in Strings(cs, n - 1) : Len(u) = n - 1}, c \in cs}

\* the lists of at most n elements of xs
RECURSIVE Lists(_, _)
Lists(xs, n) ==
    IF n = 0 THEN {<<>>}
    ELSE Lists(xs, n - 1)
         \cup {Append(t, x) : t \in {u \in Lists(xs, n - 1) : Len(u) = n - 1}, x \in xs}

TagStrings == Strings({"a", "B", " ", ","}, MaxTagLen) \cup {NoneString}

Categories == {<<"a">>, <<"B">>, <<"a", "b">>, <<" ">>}

\* a provider that holds `answers` on technician 1
provider_of(answers) == <<answers>>

\* stats rows with data in the domain of the provider
StatsRows ==
    {NoneStats, Stats(0, NoneNumber), Stats(5, NoneNumber), Stats(5, 0),
     Stats(5, 60), Stats(5, 100), [TotalBookings |-> 5, CompletedBookings |-> 5]}

WeightSettings ==
    {DefaultWeights, HeavyWeights,
     [specialization |-> 0, performance |-> 0, rating |-> 0, availability |-> 0],
     [specialization |-> 100, performance |-> 100, rating |-> 100, availability |-> 100]}

\* the values a component score takes in the score vectors
ScoreValues == {P(0), P(50), P(70), P(71), P(100)}

ScoreVectors ==
    [{FACTORS[i] : i \in 1..Len(FACTORS)} -> ScoreValues]

\* the score vectors of the technicians ranked with the first one
AlternativeVectors ==
    {[specialization |-> P(70), performance |-> P(50),
      rating |-> P(0), availability |-> P(100)],
     [specialization |-> P(71), performance |-> P(71),
      rating |-> P(71), availability |-> P(71)],
     [specialization |-> P(0), performance |-> P(0),
      rating |-> P(0), availability |-> P(0)]}

\* the entry recommend appends for technician `id` with the scores `scores`
entry_of(id, w, scores) ==
    [technician_id |-> id, technician_name |-> "name", email |-> "email",
     total_score |-> _calculate_total_score(w, scores),
     confidence |-> _calculate_total_score(w, scores),
     scores |-> scores]

InitFn ==
    /\ pool = <<>>
    /\ db = <<>>
    /\ booking_data = Booking(<<>>)
    /\ weights = DefaultWeights
    /\ pc = "idle"
    /\ idx = 1
    /\ scored_technicians = <<>>
    /\ result = NoCall
    /\ queries = <<>>
    /\ out = NoCall
    /\ classifier = NoClassifier
    /\ earlier = <<>>
    /\ \/ \E w1 \in 0..MaxWorkload, w2 \in 0..MaxWorkload :
            fn = [kind |-> "availability", w1 |-> w1, w2 |-> w2]
       \/ \E tags \in TagStrings, cats \in Lists(Categories, MaxServices) :
            fn = [kind |-> "specialization",
                  technician |-> technician_of(1, Row(tags, 40)),
                  services |-> [i \in 1..Len(cats) |-> Service(cats[i])]]
       \/ \E tags \in {<<"a">>, <<>>}, cat \in {<<"a">>, <<"B">>},
             rating \in {0, 25, 42, 50, 60}, reviews \in {0, 1, 30, 50},
             stats \in StatsRows, workload \in 0..MaxWorkload, w \in WeightSettings :
            fn = [kind |-> "scores",
                  technician |-> technician_of(1, Row(tags, rating)),
                  d |-> provider_of(Answers(stats, workload, reviews, {})),
                  booking |-> Booking(<<Service(cat)>>),
                  weights |-> w]
       \/ \E first \in ScoreVectors, others \in Lists(AlternativeVectors, MaxScored - 1) :
            fn = [kind |-> "reason",
                  entries |-> <<entry_of(1, DefaultWeights, first)>>
                              \o [i \in 1..Len(others) |->
                                     entry_of(i + 1, DefaultWeights, others[i])]]

\* _calculate_availability_score on two workloads
apply_availability ==
    /\ fn.kind = "availability"
    /\ out = NoCall
    /\ out' = [kind |-> "availability",
               a1 |-> _calculate_availability_score(
                          provider_of(Answers(NoneStats, fn.w1, 0, {})), 1, NoneLocation),
               a2 |-> _calculate_availability_score(
                          provider_of(Answers(NoneStats, fn.w2, 0, {})), 1, NoneLocation)]
    /\ UNCHANGED <<pool, db, booking_data, weights, pc, idx, scored_technicians,
                   result, queries, fn, classifier, earlier>>

\* _calculate_specialization_score on a technician and a list of services
apply_specialization ==
    /\ fn.kind = "specialization"
    /\ out = NoCall
    /\ out' = [kind |-> "specialization",
               score |-> _calculate_specialization_score(fn.technician, fn.services)]
    /\ UNCHANGED <<pool, db, booking_data, weights, pc, idx, scored_technicians,
                   result, queries, fn, classifier, earlier>>

\* _calculate_scores and _calculate_total_score on a technician
apply_scores ==
    /\ fn.kind = "scores"
    /\ out = NoCall
    /\ LET c == _calculate_scores(fn.d, fn.technician, fn.booking)
       IN  out' = [kind |-> "scores",
                   raised |-> c.raised,
                   scores |-> c.value,
                   total |-> IF c.raised THEN 0
                             ELSE _calculate_total_score(fn.weights, c.value)]
    /\ UNCHANGED <<pool, db, booking_data, weights, pc, idx, scored_technicians,
                   result, queries, fn, classifier, earlier>>

\* the sort and the response of recommend on a list of scored technicians
apply_reason ==
    /\ fn.kind = "reason"
    /\ out = NoCall
    /\ \E ranked \in {sort_by_total(fn.entries)} :
           out' = [kind |-> "reason", ranked |-> ranked, response |-> response(ranked)]
    /\ UNCHANGED <<pool, db, booking_data, weights, pc, idx, scored_technicians,
                   result, queries, fn, classifier, earlier>>

NextFn ==
    \/ apply_availability
    \/ apply_specialization
    \/ apply_scores
    \/ apply_reason

SpecFn == InitFn /\ [][NextFn]_vars

-----------------------------------------------------------------------------
(* Properties of recommend (specification Spec) *)

\* what scoring each technician of the pool gives, in the pool's order
outcomes == [i \in 1..Len(pool) |-> score_entry(db, weights, pool[i], booking_data)]

\* the entries of the candidates that do not fail, in the pool's order
RECURSIVE scored_of(_, _)
scored_of(o, n) ==
    IF n = 0 THEN <<>>
    ELSE IF o[n].raised THEN scored_of(o, n - 1)
    ELSE Append(scored_of(o, n - 1), o[n].value)

\* what recommend returns for a pool whose candidates have the entries es
recommendation_of(es) ==
    IF es = <<>> THEN no_technicians ELSE response(sort_by_total(es))

\* the place of technician `id` in the provider's list
position_of(id) == CHOOSE k \in 1..Len(pool) : pool[k]["TechnicianId"] = id

returned == pc = "done"
succeeded == returned /\ "error" \notin DOMAIN result

\* C1: on an empty pool recommend returns the error result 'No available
\* technicians found' with recommended_technician_id None, and the only
\* provider query it issues is get_available_technicians.
C1_EmptyPool ==
    (returned /\ pool = <<>>) =>
        /\ "error" \in DOMAIN result
        /\ result.error = "No available technicians found"
        /\ result.recommended_technician_id = NoneNumber
        /\ queries = << <<"get_available_technicians">> >>

C1_Witness == returned /\ pool = <<>>

\* C2: when at least one candidate scores, recommend returns a recommendation,
\* and it is the one of the pool with the failing candidates removed.
C2_FailuresExcluded ==
    returned =>
        \A o \in {outcomes} :
            (\E i \in 1..Len(pool) : ~o[i].raised) =>
                /\ "error" \notin DOMAIN result
                /\ result = recommendation_of(scored_of(o, Len(pool)))

C2_Witness ==
    /\ succeeded
    /\ \E o \in {outcomes} :
           \E i, j, k \in 1..Len(pool) :
              i < j /\ j < k /\ ~o[i].raised /\ o[j].raised /\ ~o[k].raised

\* C3: when the pool is not empty and every candidate fails, recommend
\* returns the error result 'Failed to score technicians' with
\* recommended_technician_id None (a result, not an exception).
C3_AllFail ==
    (returned /\ pool # <<>>) =>
        \A o \in {outcomes} :
            (\A i \in 1..Len(pool) : o[i].raised) =>
                /\ "error" \in DOMAIN result
                /\ result.error = "Failed to score technicians"
                /\ result.recommended_technician_id = NoneNumber

C3_Witness ==
    /\ returned
    /\ Len(pool) >= 2
    /\ \A o \in {outcomes} : \A i \in 1..Len(pool) : o[i].raised

\* C4: of two scored technicians with the same unrounded total the one earlier
\* in the provider's list is ranked earlier, and the recommended technician is
\* the first in the provider's list among those with the highest total.
C4_StableRanking ==
    succeeded =>
      \A o \in {outcomes} :
        LET ok == {i \in 1..Len(pool) : ~o[i].raised}
            top == {k \in ok : \A m \in ok : o[m].value.total_score <= o[k].value.total_score}
        IN  /\ \A i, j \in 1..Len(scored_technicians) :
                  (i < j /\ scored_technicians[i].total_score
                            = scored_technicians[j].total_score)
                  => position_of(scored_technicians[i].technician_id)
                     < position_of(scored_technicians[j].technician_id)
            /\ \A k \in top : position_of(result.recommended_technician_id) <= k

C4_Witness ==
    /\ succeeded
    /\ Len(scored_technicians) >= 3
    /\ scored_technicians[1].total_score = scored_technicians[2].total_score
    /\ scored_technicians[2].total_score > scored_technicians[3].total_score
    /\ position_of(scored_technicians[3].technician_id) = 1

\* C5: the recommended technician has the highest total of the n scored ones,
\* there are min(2, n-1) alternatives, they are the technicians of rank 2 and 3
\* by descending total, and the recommended one is not among them.
C5_BestAndAlternatives ==
    succeeded =>
      \A o \in {outcomes} :
        LET ok == {i \in 1..Len(pool) : ~o[i].raised}
            n == Cardinality(ok)
            ids == {pool[i]["TechnicianId"] : i \in ok}
            total == [id \in ids |-> o[position_of(id)].value.total_score]
            best == result.recommended_technician_id
            alts == result.alternatives
            alt_ids == {alts[i].technician_id : i \in 1..Len(alts)}
            others == ids \ ({best} \cup alt_ids)
        IN  /\ best \in ids
            /\ \A id \in ids : total[id] <= total[best]
            /\ Len(alts) = Min(2, n - 1)
            /\ best \notin alt_ids
            /\ Cardinality(alt_ids) = Len(alts)
            /\ alt_ids \subseteq ids
            /\ \A i \in 1..Len(alts) :
                  /\ i > 1 => total[alts[i].technician_id] <= total[alts[i - 1].technician_id]
                  /\ \A id \in others : total[id] <= total[alts[i].technician_id]

C5_Witness ==
    /\ succeeded
    /\ Len(scored_technicians) = 4
    /\ Len(result.alternatives) = 2
    /\ scored_technicians[3].total_score > scored_technicians[4].total_score
    /\ position_of(result.recommended_technician_id) = 4

\* technician i of the pool has every requested category matched, success
\* rate 1.0 over at least one booking, workload 0 and rating 5.0 (the review
\* average when there are reviews, the profile rating otherwise)
perfect_technician(i) ==
    LET t == pool[i]
        a == db[t["TechnicianId"]]
        requested == requested_categories(Get(booking_data, "services", <<>>))
    IN  /\ "Specialization" \in DOMAIN t
        /\ t["Specialization"] # NoneString
        /\ requested # <<>>
        /\ LET specs == tech_specs_list(t["Specialization"])
           IN  \A c \in 1..Len(requested) :
                  \E k \in 1..Len(specs) :
                      Contains(requested[c], specs[k]) \/ Contains(specs[k], requested[c])
        /\ a.stats # NoneStats
        /\ Get(a.stats, "TotalBookings", 0) >= 1
        /\ Get(a.stats, "SuccessRate", 0) = 100
        /\ a.workload = 0
        /\ IF a.reviews > 0 THEN a.reviews = 50 ELSE Get(t, "Rating", 0) = 50

\* the confidences the result gives for technician `id`
confidences_of(id) ==
    (IF result.recommended_technician_id = id THEN {result.confidence} ELSE {})
    \cup {result.alternatives[k].confidence :
             k \in {m \in 1..Len(result.alternatives) :
                       result.alternatives[m].technician_id = id}}

-----------------------------------------------------------------------------
(* Properties of the scoring functions (specification SpecFn) *)

\* C6: with provider data in its domain and non-negative weights, also ones
\* that sum to more than 1, the four component scores and the total score lie
\* in [0, 1].
C6_ScoresInUnitInterval ==
    out.kind = "scores" =>
        /\ ~out.raised
        /\ \A k \in 1..Len(FACTORS) :
              out.scores[FACTORS[k]] >= 0 /\ out.scores[FACTORS[k]] <= ONE
        /\ out.total >= 0
        /\ out.total <= ONE * 100

C6_Witness ==
    /\ out.kind = "scores"
    /\ fn.weights["specialization"] + fn.weights["performance"]
       + fn.weights["rating"] + fn.weights["availability"] > 100
    /\ out.scores["specialization"] * fn.weights["specialization"]
       + out.scores["performance"] * fn.weights["performance"]
       + out.scores["rating"] * fn.weights["rating"]
       + out.scores["availability"] * fn.weights["availability"] > ONE * 100
    /\ out.total = ONE * 100

\* every usable requested category is matched by a tag of the technician
\* (the match fraction is 1.0)
full_match(technician, services) ==
    LET requested == requested_categories(services)
        specs == tech_specs_list(technician["Specialization"])
    IN  /\ requested # <<>>
        /\ \A c \in 1..Len(requested) :
              \E k \in 1..Len(specs) :
                  Contains(requested[c], specs[k]) \/ Contains(specs[k], requested[c])

C8_AvailabilityMonotone ==
    (out.kind = "availability" /\ fn.w1 <= fn.w2) =>
        /\ ~out.a1.raised /\ ~out.a2.raised
        /\ out.a1.value >= out.a2.value

C8_Witness ==
    /\ out.kind = "availability"
    /\ fn.w1 = 5 /\ fn.w2 = 6
    /\ out.a1.value > out.a2.value

\* the staircase as stated, in hundredths
staircase(w) ==
    CASE w <= 2 -> 100
      [] w >= 3 /\ w <= 5 -> 90 - 6 * (w - 2)
      [] w >= 6 /\ w <= 10 -> 60 - 4 * (w - 5)
      [] w > 10 -> Max(20, 40 - 2 * (w - 10))

-----------------------------------------------------------------------------
(* The worked example: a booking for brakes, tech-A and tech-B              *)
(* (specification SpecExample)                                              *)

brakes == <<"b", "r", "a", "k", "e", "s">>
engine == <<"e", "n", "g", "i", "n", "e">>
brakes_suspension ==
    brakes \o <<",", "s", "u", "s", "p", "e", "n", "s", "i", "o", "n">>

ExampleIds == {"tech-A", "tech-B", "tech-C"}

\* the rows of the example; tech-C is a third candidate whose reviews query
\* fails at the provider
ExampleRows ==
    [id \in ExampleIds |->
        CASE id = "tech-A" -> Row(brakes_suspension, 42)
          [] id = "tech-B" -> Row(engine, 48)
          [] OTHER -> Row(brakes, 50)]

\* the histories tech-A and tech-B share: no recorded bookings, or ten
\* bookings with the same success rate (or none computed)
ExampleHistories ==
    {NoneStats, Stats(0, NoneNumber), Stats(10, NoneNumber)}
    \cup {Stats(10, 10 * r) : r \in 0..10}

\* what the provider holds in the example
ExampleProvider(history) ==
    [id \in ExampleIds |->
        CASE id = "tech-A" -> Answers(history, 1, 0, {})
          [] id = "tech-B" -> Answers(history, 0, 0, {})
          [] OTHER -> Answers(history, 0, 0, {"get_technician_reviews_avg"})]

\* the provider's lists: tech-A and tech-B in either order, with or without
\* tech-C at any place
ExamplePools ==
    {ids \in UNION {[1..n -> ExampleIds] : n \in 2..3} :
        /\ \A i, j \in DOMAIN ids : ids[i] = ids[j] => i = j
        /\ {"tech-A", "tech-B"} \subseteq {ids[i] : i \in DOMAIN ids}}

\* the example before recommend is entered, but for the trained model
ExampleStart ==
    /\ \E ids \in ExamplePools :
           pool = [i \in DOMAIN ids |-> technician_of(ids[i], ExampleRows[ids[i]])]
    /\ \E history \in ExampleHistories : db = ExampleProvider(history)
    /\ booking_data = Booking(<<Service(brakes)>>)
    /\ weights = DefaultWeights
    /\ pc = "start"
    /\ idx = 1
    /\ scored_technicians = <<>>
    /\ result = NoCall
    /\ queries = <<>>
    /\ fn = NoCall
    /\ out = NoCall
    /\ earlier = <<>>

InitExample ==
    /\ ExampleStart
    /\ classifier = NoClassifier

SpecExample == InitExample /\ [][Next]_vars

\* C11: in the example recommend returns tech-A as the recommended technician
\* and tech-B as the only alternative, in either provider order, whether the
\* two have no recorded bookings or the same success rate.
C11_ExampleRanking ==
    returned =>
        /\ "error" \notin DOMAIN result
        /\ result.recommended_technician_id = "tech-A"
        /\ Len(result.alternatives) = 1
        /\ result.alternatives[1].technician_id = "tech-B"

C11_Witness ==
    /\ returned
    /\ Len(pool) = 2
    /\ pool[1]["TechnicianId"] = "tech-B"
    /\ db["tech-A"].stats = Stats(10, 80)
    /\ result.recommended_technician_id = "tech-A"

-----------------------------------------------------------------------------
(* Properties of the reason (specification SpecFn) *)

\* factor i comes before factor j in the ranking of the scores: its score is
\* higher, or equal and it is the earlier of the two
before(scores, i, j) ==
    \/ scores[FACTORS[i]] > scores[FACTORS[j]]
    \/ scores[FACTORS[i]] = scores[FACTORS[j]] /\ i < j

\* the factor with n - 1 factors before it
nth_factor(scores, n) ==
    FACTORS[CHOOSE j \in 1..Len(FACTORS) :
                Cardinality({i \in 1..Len(FACTORS) : before(scores, i, j)}) = n - 1]

\* the reason names the label of the first factor, and that of the second
\* one behind ' and ' exactly when its score is above 0.7
names_factors(reason, scores) ==
    /\ reason # <<>>
    /\ \A i \in 1..Len(reason) : reason[i] # ""
    /\ Len(reason) >= 2
    /\ reason[2] = reasons[nth_factor(scores, 1)]
    /\ IF scores[nth_factor(scores, 2)] > P(70)
       THEN /\ Len(reason) = 4
            /\ reason[3] = " and "
            /\ reason[4] = reasons[nth_factor(scores, 2)]
       ELSE Len(reason) = 2

\* C12: the reason is never empty and names the label of the highest-scoring
\* component (the earlier one on equal scores), and that of the second-ranked
\* component, joined with ' and ', exactly when its score is above 0.7; so for
\* the recommended technician and for each alternative.
C12_ReasonNamesFactors ==
    out.kind = "reason" =>
        /\ names_factors(out.response.reason, out.ranked[1].scores)
        /\ Len(out.response.alternatives) = Min(2, Len(out.ranked) - 1)
        /\ \A k \in 1..Len(out.response.alternatives) :
               names_factors(out.response.alternatives[k].reason,
                             out.ranked[k + 1].scores)

C12_Witness ==
    /\ out.kind = "reason"
    /\ Len(out.ranked) = 3
    /\ out.ranked[1].scores = [specialization |-> P(50), performance |-> P(100),
                               rating |-> P(100), availability |-> P(71)]
    /\ out.response.reason = <<"Best match based on ", "strong performance history",
                               " and ", "high customer ratings">>
    /\ \E k \in 1..2 :
           /\ out.ranked[k + 1].scores[nth_factor(out.ranked[k + 1].scores, 2)] = P(70)
           /\ Len(out.response.alternatives[k].reason) = 2

-----------------------------------------------------------------------------
(* The factors of the response (specification Spec) *)

\* C13: in every successful result the location_proximity of the factors is
\* zero, whatever the workload of the recommended technician.
C13_LocationProximityZero ==
    succeeded => result.factors.location_proximity = 0

-----------------------------------------------------------------------------
(* Gaps in the data of a technician (specification Spec) *)

\* the technician at place i has no specialization tags: the column is
\* absent, NULL, or holds no tag
tags_missing(i) ==
    \/ "Specialization" \notin DOMAIN pool[i]
    \/ pool[i]["Specialization"] = NoneString
    \/ tech_specs_list(pool[i]["Specialization"]) = <<>>

\* the row at place i is whole but for its tags, and no query on it fails
sound_but_for_gaps(i) ==
    /\ {"TechnicianId", "DisplayName", "Email", "Rating"} \subseteq DOMAIN pool[i]
    /\ db[i].raises = {}

\* C14: a technician whose tags are missing (absent, null or empty), who has
\* no reviews or who has no recorded bookings stays in the ranking, scored
\* with the defaults: specialization 0.3, the rating of the profile,
\* performance 0.65.
C14_GapsScoredWithDefaults ==
    returned =>
        \A i \in 1..Len(pool) :
            sound_but_for_gaps(i) =>
                \E k \in 1..Len(scored_technicians) :
                    \E e \in {scored_technicians[k]} :
                        /\ e.technician_id = i
                        /\ tags_missing(i) => e.scores["specialization"] = P(30)
                        /\ db[i].reviews = 0 =>
                               e.scores["rating"]
                                   = Min((pool[i]["Rating"] * SCALE) \div 50, ONE)
                        /\ (db[i].stats = NoneStats
                            \/ Get(db[i].stats, "TotalBookings", 0) = 0) =>
                               e.scores["performance"] = P(65)

-----------------------------------------------------------------------------
(* The trained model (specification SpecClassifier)                         *)

\* what pickle.load of models/ml/technician_model.pkl and predict_proba on
\* the features of a technician would give: no file, a model whose inference
\* raises, or a model with a probability of success (in hundredths) for each
\* technician
Classifiers ==
    {NoClassifier,
     [kind |-> "raises"],
     [kind |-> "predicts",
      probability |-> [id \in ExampleIds |->
                          CASE id = "tech-A" -> 10
                            [] id = "tech-B" -> 90
                            [] OTHER -> 50]]}

\* the example with or without a trained model on the disk; __init__ reads
\* the weights and nothing else
InitClassifier ==
    /\ ExampleStart
    /\ classifier \in Classifiers

SpecClassifier == InitClassifier /\ [][Next]_vars

\* the rounded clamped weighted sum of the scores of technician `id`
weighted_confidence(id) ==
    LET e == CHOOSE x \in {scored_technicians[k] : k \in 1..Len(scored_technicians)} :
                 x.technician_id = id
    IN  Round2(Min(e.scores["specialization"] * weights["specialization"]
                   + e.scores["performance"] * weights["performance"]
                   + e.scores["rating"] * weights["rating"]
                   + e.scores["availability"] * weights["availability"],
                   ONE * 100), SCALE * 100)

\* the confidence the trained model, or the weighted formula, gives `id`
expected_confidence(id) ==
    IF classifier.kind = "predicts" THEN classifier.probability[id]
    ELSE weighted_confidence(id)

\* C15: with a trained classifier its predicted probability is the confidence
\* of each technician; without one, or when its inference raises, recommend
\* still returns a recommendation and the confidence is the clamped weighted
\* sum of the component scores.
C15_ClassifierConfidence ==
    returned =>
        /\ "error" \notin DOMAIN result
        /\ result.confidence = expected_confidence(result.recommended_technician_id)
        /\ \A k \in 1..Len(result.alternatives) :
               result.alternatives[k].confidence
                   = expected_confidence(result.alternatives[k].technician_id)

-----------------------------------------------------------------------------
(* Several requests, one after the other (specification SpecRequests)       *)

\* the most calls of recommend in one run
MaxRequests == 2

\* model_dump() of a LocationDto
Cairo == [latitude |-> 30, longitude |-> 31, city |-> "Cairo"]

\* the bookings of the requests: two lists of services, and everything else
\* in two values
RequestBookings ==
    {[booking_id |-> id, services |-> <<Service(category)>>,
      scheduled_date |-> date, location |-> location, priority |-> priority] :
        id \in {1, 2}, category \in {brakes, engine}, date \in {"date", "later"},
        location \in {NoneLocation, Cairo}, priority \in {"normal", "urgent"}}

\* the provider's lists of the runs of several requests
RequestPools ==
    {<<"tech-A", "tech-B">>, <<"tech-B", "tech-A">>, <<"tech-B", "tech-C", "tech-A">>}

InitRequests ==
    /\ \E ids \in RequestPools :
           pool = [i \in DOMAIN ids |-> technician_of(ids[i], ExampleRows[ids[i]])]
    /\ db = ExampleProvider(Stats(10, 80))
    /\ booking_data \in RequestBookings
    /\ weights = DefaultWeights
    /\ pc = "start"
    /\ idx = 1
    /\ scored_technicians = <<>>
    /\ result = NoCall
    /\ queries = <<>>
    /\ fn = NoCall
    /\ out = NoCall
    /\ classifier = NoClassifier
    /\ earlier = <<>>

\* assign_technician calls recommender.recommend(booking_data) for the next
\* request: the locals of recommend start afresh, self.weights and the
\* provider are those of the call before
next_request ==
    /\ pc = "done"
    /\ Len(earlier) + 1 < MaxRequests
    /\ earlier' = Append(earlier, [booking |-> booking_data, result |-> result])
    /\ booking_data' \in RequestBookings
    /\ pc' = "start"
    /\ idx' = 1
    /\ scored_technicians' = <<>>
    /\ result' = NoCall
    /\ queries' = <<>>
    /\ UNCHANGED <<pool, db, weights, fn, out, classifier>>

NextRequests ==
    \/ get_available_technicians
    \/ score_technician
    \/ skip_technician
    \/ build_response
    \/ next_request

SpecRequests == InitRequests /\ [][NextRequests]_vars

\* the categories a booking requests
categories_of(booking) == requested_categories(booking.services)

\* C16: after any sequence of calls the weights are those configured, and a
\* call returns what each earlier call with the same service categories
\* returned (the provider's answers being the same), whatever the booking
\* id, priority, scheduled date and location of the two.
C16_RequestsIndependent ==
    /\ weights = DefaultWeights
    /\ returned =>
           \A k \in 1..Len(earlier) :
               categories_of(earlier[k].booking) = categories_of(booking_data) =>
                   earlier[k].result = result

C16_Witness ==
    /\ returned
    /\ \E k \in 1..Len(earlier) :
           \E b \in {earlier[k].booking} :
               /\ categories_of(b) = categories_of(booking_data)
               /\ b.booking_id # booking_data.booking_id
               /\ b.priority # booking_data.priority
               /\ b.scheduled_date # booking_data.scheduled_date
               /\ b.location # booking_data.location
               /\ earlier[k].result = result
               /\ "error" \notin DOMAIN result

-----------------------------------------------------------------------------
(* Properties of the performance and rating scores (specification SpecFn) *)

\* the success rate of a stats row in hundredths, 0.8 when it is undefined:
\* absent from the row, or None
success_rate_or_default(stats) ==
    IF "SuccessRate" \notin DOMAIN stats THEN 80
    ELSE IF stats["SuccessRate"] = NoneNumber THEN 80
    ELSE stats["SuccessRate"]

\* min(1.0, 0.6 * s + 0.4 * max(0, 1 - workload / 10))
blend(s, workload) ==
    Min(ONE, (6 * s * (SCALE \div 100)) \div 10
             + (4 * Max(0, ONE - workload * (ONE \div 10))) \div 10)

\* C17: the performance score is 0.65 without stats or with zero recorded
\* bookings, and otherwise min(1.0, 0.6*s + 0.4*max(0, 1 - workload/10)) with s
\* the success rate, or 0.8 when the success rate is absent from the stats or
\* null.
C17_PerformanceScore ==
    (out.kind = "scores" /\ ~out.raised) =>
        \E stats \in {fn.d[1].stats} :
            out.scores["performance"]
                = IF stats = NoneStats THEN P(65)
                  ELSE IF stats["TotalBookings"] = 0 THEN P(65)
                  ELSE blend(success_rate_or_default(stats), fn.d[1].workload)

\* C18: the rating score is min(1.0, r/5) with r the review average when it is
\* above 0 and the rating of the profile otherwise; with a positive review
\* average the score is a function of that average alone.
C18_RatingScore ==
    (out.kind = "scores" /\ ~out.raised) =>
        \E reviews_avg \in {fn.d[1].reviews} :
            /\ reviews_avg > 0 =>
                   out.scores["rating"] = Min(ONE, (reviews_avg * SCALE) \div 50)
            /\ reviews_avg <= 0 =>
                   out.scores["rating"]
                       = Min(ONE, (fn.technician["Rating"] * SCALE) \div 50)

C18_Witness ==
    /\ out.kind = "scores"
    /\ ~out.raised
    /\ fn.d[1].reviews = 30
    /\ fn.technician["Rating"] = 50
    /\ out.scores["rating"] = P(60)

-----------------------------------------------------------------------------
(* The order of the provider queries (specification Spec) *)

\* the query at place p of the log is the one that failed
failed_query(p) == Raises(db, queries[p][1], queries[p][2])

\* C19: get_available_technicians is called once, as the first query; the
\* queries on the candidates follow in the provider's order, all those on one
\* candidate before any on the next; and after a query on a candidate fails no
\* further query is issued on that candidate.
C19_SequentialNoRetry ==
    /\ pc = "start" => queries = <<>>
    /\ pc # "start" =>
           /\ queries # <<>>
           /\ queries[1] = <<"get_available_technicians">>
           /\ \A p \in 2..Len(queries) : Len(queries[p]) = 2
           /\ \A p, q \in 2..Len(queries) :
                  p < q => queries[p][2] <= queries[q][2]
           /\ \A p \in 2..Len(queries) :
                  failed_query(p) =>
                      \A q \in (p + 1)..Len(queries) : queries[q][2] # queries[p][2]

C19_Witness ==
    /\ returned
    /\ \E p \in 3..(Len(queries) - 1) :
           /\ failed_query(p)
           /\ queries[p - 1][2] = queries[p][2]
           /\ queries[p + 1][2] = queries[p][2] + 1
           /\ queries[2][2] < queries[p][2]

====
